---- MODULE Spec2Model ----
(***************************************************************************)
(* Model of src/src/distributions.rs: the weighted coin, the bounded       *)
(* integer draw, the Repeat controller, the alias-method Sampler and the   *)
(* signed integer draw, all reading from one sequential bit source.        *)
(*                                                                         *)
(* u64 is modelled as an unsigned word of WordBits bits (arithmetic wraps  *)
(* modulo 2^WordBits), i64 as the signed word of the same width.  A        *)
(* probability (f64 / f32) is an exact rational <<num, den>>.  An          *)
(* operation is one action: its loops run to their end inside it, and the  *)
(* action leaves the result, the reads it issued and the cursor.           *)
(***************************************************************************)
EXTENDS Integers, Sequences, FiniteSets, TLC

VARIABLES
    data,             \* DataSource: the content of the bit source (sequence of 0/1)
    cursor,           \* DataSource: number of bits consumed so far
    overflow_checks,  \* build: TRUE = arithmetic overflow panics (debug), FALSE = wraps (release)
    op,               \* name of the last operation run
    arg,              \* input of the last operation
    result,           \* [kind, val] returned by the last operation
    log,              \* reads issued by the last operation, in order
    pre,              \* [cursor, count, trues, stopped] before the last operation
    repeat,           \* Repeat: [min_count, max_count, p_continue, current_count]
    trues,            \* number of should_continue calls that returned true
    stopped,          \* a should_continue call has returned false
    weights,          \* the weight vector given to Sampler::new
    exact,            \* TRUE: Sampler::new's divisions are exact, FALSE: rounded
    sampler,          \* Sampler: [ok, table]
    driver            \* which caller owns the source: "coin", "repeat", "sampler" or "table"

vars == <<data, cursor, overflow_checks, op, arg, result, log, pre,
          repeat, trues, stopped, weights, exact, sampler, driver>>

------------------------------------------------------------------------------
(* Bounds of the model *)

WordBits == 2          \* width of the modelled u64 / i64
DataBits == 7          \* number of bits the source holds
MaxCount == 2          \* largest min_count / max_count
MaxWeights == 3        \* longest weight vector
MaxWeight == 2         \* largest single weight
GridBits == 3          \* fraction bits kept by a rounded division

Infinity == -1         \* marks expected_count = +inf

------------------------------------------------------------------------------
(* Arithmetic helpers *)

RECURSIVE Pow2(_)
Pow2(n) == IF n = 0 THEN 1 ELSE 2 * Pow2(n - 1)

\* u64::max_value()
MaxWord == Pow2(WordBits) - 1

\* u64::leading_zeros
LeadingZeros(x) ==
    CHOOSE k \in 0..WordBits :
        /\ x < Pow2(WordBits - k)
        /\ (k = WordBits \/ x >= Pow2(WordBits - k - 1))

RECURSIVE BitsToNat(_)
BitsToNat(bs) ==
    IF bs = <<>> THEN 0
    ELSE 2 * BitsToNat(SubSeq(bs, 1, Len(bs) - 1)) + bs[Len(bs)]

RECURSIVE BitSeqs(_)
BitSeqs(n) ==
    IF n = 0 THEN {<<>>}
    ELSE {Append(b, x) : b \in BitSeqs(n - 1), x \in {0, 1}}

Min(a, b) == IF a <= b THEN a ELSE b

------------------------------------------------------------------------------
(* DataSource: a cursor over a finite buffer of bits.  A read of n bits    *)
(* either consumes exactly n bits or fails.                                 *)

Source0 == [cur |-> cursor, log |-> <<>>]

\* the source declares a read of no bit, or of more bits than a word holds, invalid
bits(s, n) ==
    IF n >= 1 /\ n <= WordBits /\ s.cur + n <= Len(data)
    THEN LET v == BitsToNat(SubSeq(data, s.cur + 1, s.cur + n))
         IN  [ok |-> TRUE, val |-> v,
              s |-> [cur |-> s.cur + n,
                     log |-> Append(s.log, [n |-> n, ok |-> TRUE, val |-> v])]]
    ELSE [ok |-> FALSE, val |-> 0,
          s |-> [cur |-> s.cur,
                 log |-> Append(s.log, [n |-> n, ok |-> FALSE, val |-> 0])]]

Ok(v, s) == [kind |-> "ok", val |-> v, s |-> s]
FailedDraw(s) == [kind |-> "fail", val |-> 0, s |-> s]
Panic(s) == [kind |-> "panic", val |-> 0, s |-> s]

------------------------------------------------------------------------------
(* weighted *)

\* (probability * 2^64).floor() as u64: the product and the floor are exact
\* in f64, and the cast saturates at u64::MAX (reached at probability 1.0)
Truthy(p) == Min((p[1] * Pow2(WordBits)) \div p[2], MaxWord)

weighted(s, probability) ==
    LET truthy == Truthy(probability)
        r == bits(s, WordBits)
        threshold == (MaxWord - truthy) + 1
    IN  IF ~r.ok THEN FailedDraw(r.s)
        ELSE IF threshold > MaxWord /\ overflow_checks THEN Panic(r.s)
        ELSE Ok(r.val >= threshold % Pow2(WordBits), r.s)

------------------------------------------------------------------------------
(* bounded_int *)

\* bounded_int's loop without the comparison with max: the first probe is returned
bounded_int_loop_any_probe(s, max, bitlength) ==
    LET r == bits(s, bitlength)
    IN  IF ~r.ok THEN FailedDraw(r.s) ELSE Ok(r.val, r.s)

RECURSIVE bounded_int_loop(_, _, _)
bounded_int_loop(s, max, bitlength) ==
    LET r == bits(s, bitlength)
    IN  IF ~r.ok THEN FailedDraw(r.s)
        ELSE IF r.val <= max THEN Ok(r.val, r.s)
        ELSE bounded_int_loop(r.s, max, bitlength)

\* bounded_int reading a whole word whatever max is
bounded_int_word_wide(s, max) ==
    IF WordBits - LeadingZeros(max) = 0 THEN Ok(0, s)
    ELSE bounded_int_loop(s, max, WordBits)

\* bounded_int without the short-circuit for a bit length of 0
bounded_int_no_short_circuit(s, max) ==
    bounded_int_loop(s, max, WordBits - LeadingZeros(max))

bounded_int(s, max) ==
    LET bitlength == WordBits - LeadingZeros(max)
    IN  IF bitlength = 0 THEN Ok(0, s)
        ELSE bounded_int_loop(s, max, bitlength)

------------------------------------------------------------------------------
(* Repeat *)

\* 1.0 - 1.0 / (1.0 + expected_count); 1.0 / inf is 0.0
PContinue(expected_count) ==
    IF expected_count = Infinity THEN <<1, 1>>
    ELSE <<(1 + expected_count) - 1, 1 + expected_count>>

Repeat_new(min_count, max_count, expected_count) ==
    [min_count |-> min_count,
     max_count |-> max_count,
     p_continue |-> PContinue(expected_count),
     current_count |-> 0]

\* draw_until drawing once and returning whatever the outcome
draw_until_draws_once(self, s, value) ==
    LET d == weighted(s, self.p_continue)
    IN  IF d.kind # "ok" THEN d ELSE Ok(0, d.s)

\* draw_until taking a failed draw for the outcome it waits for
RECURSIVE draw_until_swallows_failure(_, _, _)
draw_until_swallows_failure(self, s, value) ==
    LET d == weighted(s, self.p_continue)
    IN  IF d.kind = "panic" THEN d
        ELSE IF d.kind = "fail" \/ d.val = value THEN Ok(0, d.s)
        ELSE draw_until_swallows_failure(self, d.s, value)

RECURSIVE draw_until(_, _, _)
draw_until(self, s, value) ==
    LET d == weighted(s, self.p_continue)
    IN  IF d.kind # "ok" THEN d
        ELSE IF d.val = value THEN Ok(0, d.s)
        ELSE draw_until(self, d.s, value)

\* should_continue forcing a true in the normal state as it does below min_count
should_continue_normal_forces(self, s) ==
    IF self.current_count >= self.min_count /\ self.current_count >= self.max_count
    THEN LET d == draw_until(self, s, FALSE)
         IN  IF d.kind # "ok" THEN [kind |-> d.kind, val |-> FALSE, s |-> d.s, self |-> self]
             ELSE [kind |-> "ok", val |-> FALSE, s |-> d.s, self |-> self]
    ELSE LET d == draw_until(self, s, TRUE)
         IN  IF d.kind # "ok" THEN [kind |-> d.kind, val |-> FALSE, s |-> d.s, self |-> self]
             ELSE [kind |-> "ok", val |-> TRUE, s |-> d.s,
                   self |-> IF self.current_count >= self.min_count
                            THEN [self EXCEPT !.current_count = @ + 1]
                            ELSE self]

\* should_continue taking the at-max branch only above max_count
should_continue_max_off_by_one(self, s) ==
    IF self.current_count < self.min_count
    THEN LET d == draw_until(self, s, TRUE)
         IN  IF d.kind # "ok" THEN [kind |-> d.kind, val |-> FALSE, s |-> d.s, self |-> self]
             ELSE [kind |-> "ok", val |-> TRUE, s |-> d.s, self |-> self]
    ELSE IF self.current_count > self.max_count
    THEN LET d == draw_until(self, s, FALSE)
         IN  IF d.kind # "ok" THEN [kind |-> d.kind, val |-> FALSE, s |-> d.s, self |-> self]
             ELSE [kind |-> "ok", val |-> FALSE, s |-> d.s, self |-> self]
    ELSE LET result_ == weighted(s, self.p_continue)
         IN  [kind |-> result_.kind, val |-> result_.val, s |-> result_.s,
              self |-> IF result_.kind = "ok" /\ result_.val = TRUE
                       THEN [self EXCEPT !.current_count = @ + 1]
                       ELSE self]

\* returns [kind, val, s, self]: the result, the source and the controller after the call
should_continue(self, s) ==
    IF self.current_count < self.min_count
    THEN LET d == draw_until(self, s, TRUE)
         IN  IF d.kind # "ok" THEN [kind |-> d.kind, val |-> FALSE, s |-> d.s, self |-> self]
             ELSE [kind |-> "ok", val |-> TRUE, s |-> d.s, self |-> self]
    ELSE IF self.current_count >= self.max_count
    THEN LET d == draw_until(self, s, FALSE)
         IN  IF d.kind # "ok" THEN [kind |-> d.kind, val |-> FALSE, s |-> d.s, self |-> self]
             ELSE [kind |-> "ok", val |-> FALSE, s |-> d.s, self |-> self]
    ELSE LET result_ == weighted(s, self.p_continue)
         IN  [kind |-> result_.kind, val |-> result_.val, s |-> result_.s,
              self |-> IF result_.kind = "ok" /\ result_.val = TRUE
                       THEN [self EXCEPT !.current_count = @ + 1]
                       ELSE self]

------------------------------------------------------------------------------
(* SamplerEntry *)

single(i) == [primary |-> i, alternate |-> i, use_alternate |-> <<0, 1>>]

\* usize::cmp
CmpInt(a, b) == IF a < b THEN "Less" ELSE IF a > b THEN "Greater" ELSE "Equal"

\* Ord for SamplerEntry: primary, then alternate
cmp(self, other) ==
    IF CmpInt(self.primary, other.primary) # "Equal"
    THEN CmpInt(self.primary, other.primary)
    ELSE CmpInt(self.alternate, other.alternate)

\* Vec::sort (stable): insertion of each entry after the entries not greater than it
RECURSIVE InsertSorted(_, _)
InsertSorted(sorted, e) ==
    IF sorted = <<>> THEN <<e>>
    ELSE IF cmp(e, sorted[Len(sorted)]) = "Less"
         THEN Append(InsertSorted(SubSeq(sorted, 1, Len(sorted) - 1), e), sorted[Len(sorted)])
         ELSE Append(sorted, e)

\* Sampler::new without its final sort
SortTable_left_unsorted(table) == table

RECURSIVE SortTable(_)
SortTable(table) ==
    IF table = <<>> THEN <<>>
    ELSE InsertSorted(SortTable(SubSeq(table, 1, Len(table) - 1)), table[Len(table)])

------------------------------------------------------------------------------
(* Sampler::new.  Indices are 0-based as in the source; weights[i] of the  *)
(* source is weights[i + 1] of the sequence.  A scaled probability is a    *)
(* numerator over the denominator one: one = total when the division is    *)
(* exact, one = 2^GridBits when the quotient is rounded to the grid.       *)

RECURSIVE Sum(_)
Sum(ws) == IF ws = <<>> THEN 0 ELSE Sum(SubSeq(ws, 1, Len(ws) - 1)) + ws[Len(ws)]

SetMin(S) == CHOOSE x \in S : \A y \in S : x <= y

\* BinaryHeap::iter over the indices left in a heap
RECURSIVE HeapIter(_)
HeapIter(S) == IF S = {} THEN <<>> ELSE <<SetMin(S)>> \o HeapIter(S \ {SetMin(S)})

\* a / b rounded to the nearest integer
RoundDiv(a, b) == (2 * a + b) \div (2 * b)

One(ws, ex) == IF ex THEN Sum(ws) ELSE Pow2(GridBits)

\* n * w / total, in units of 1 / one
Scaled(ws, ex, i) ==
    IF ex THEN Len(ws) * ws[i + 1]
    ELSE RoundDiv(Len(ws) * ws[i + 1] * Pow2(GridBits), Sum(ws))

\* the first loop: classify every index
ClassifyTable(ws, ex) ==
    LET one == One(ws, ex)
        RECURSIVE Go(_)
        Go(i) == IF i = Len(ws) THEN <<>>
                 ELSE (IF Scaled(ws, ex, i) = one THEN <<single(i)>> ELSE <<>>) \o Go(i + 1)
    IN  Go(0)

\* the pairing loop: pop the lowest index of each heap until one is empty
RECURSIVE PairLoop(_, _, _, _, _)
PairLoop(scaled, small, large, table, one) ==
    IF small = {} \/ large = {}
    THEN [table |-> table, small |-> small, large |-> large]
    ELSE LET lo == SetMin(small)
             hi == SetMin(large)
             new_hi == (scaled[hi] + scaled[lo]) - one
             scaled2 == [scaled EXCEPT ![hi] = new_hi]
             pair == [primary |-> lo, alternate |-> hi,
                      use_alternate |-> <<one - scaled[lo], one>>]
             small1 == small \ {lo}
             large1 == large \ {hi}
         IN  IF new_hi < one
             THEN PairLoop(scaled2, small1 \cup {hi}, large1, Append(table, pair), one)
             ELSE IF new_hi > one
             THEN PairLoop(scaled2, small1, large1 \cup {hi}, Append(table, pair), one)
             ELSE PairLoop(scaled2, small1, large1,
                           Append(Append(table, pair), single(hi)), one)

\* the normalisation swapping the indices and keeping use_alternate as it was
Normalise_keeps_use_alternate(entry) ==
    IF entry.alternate < entry.primary
    THEN [primary |-> entry.alternate, alternate |-> entry.primary,
          use_alternate |-> entry.use_alternate]
    ELSE entry

\* the normalisation left out
Normalise_left_out(entry) == entry

\* the normalisation of one entry: primary <= alternate
Normalise(entry) ==
    IF entry.alternate < entry.primary
    THEN [primary |-> entry.alternate, alternate |-> entry.primary,
          use_alternate |-> <<entry.use_alternate[2] - entry.use_alternate[1],
                              entry.use_alternate[2]>>]
    ELSE entry

\* the first two loops: the table and the heaps when the pairing loop ends
Paired(ws, ex) ==
    LET one == One(ws, ex)
        idx == 0..(Len(ws) - 1)
        scaled == [i \in idx |-> Scaled(ws, ex, i)]
        small == {i \in idx : scaled[i] < one}
        large == {i \in idx : scaled[i] > one}
    IN  PairLoop(scaled, small, large, ClassifyTable(ws, ex), one)

\* the table as pushed by all the loops, before normalisation and sort
Pushed(ws, ex) ==
    LET r == Paired(ws, ex)
        rest == HeapIter(r.small) \o HeapIter(r.large)
    IN  r.table \o [k \in 1..Len(rest) |-> single(rest[k])]

\* [ok, table]: ok = FALSE when an assertion of the constructor fails
\* (no weight, or a total of 0, which makes every scaled probability NaN)
Sampler_new(ws, ex) ==
    IF Len(ws) = 0 \/ Sum(ws) = 0 THEN [ok |-> FALSE, table |-> <<>>]
    ELSE LET pushed == Pushed(ws, ex)
             normal == [k \in 1..Len(pushed) |-> Normalise(pushed[k])]
         IN  [ok |-> TRUE, table |-> SortTable(normal)]

------------------------------------------------------------------------------
(* Sampler::sample and integer_from_bitlengths *)

\* sample reading no coin for an entry whose use_alternate is 0.0
sample_skips_certain_coin(self, s) ==
    LET i == bounded_int(s, Len(self.table) - 1)
    IN  IF i.kind # "ok" THEN i
        ELSE LET entry == self.table[i.val + 1]
                 use_alternate == weighted(i.s, entry.use_alternate)
             IN  IF entry.use_alternate[1] = 0 THEN Ok(entry.primary, i.s)
                 ELSE IF use_alternate.kind # "ok" THEN [use_alternate EXCEPT !.val = 0]
                 ELSE IF use_alternate.val THEN Ok(entry.alternate, use_alternate.s)
                 ELSE Ok(entry.primary, use_alternate.s)

sample(self, s) ==
    LET i == bounded_int(s, Len(self.table) - 1)
    IN  IF i.kind # "ok" THEN i
        ELSE LET entry == self.table[i.val + 1]
                 use_alternate == weighted(i.s, entry.use_alternate)
             IN  IF use_alternate.kind # "ok" THEN [use_alternate EXCEPT !.val = 0]
                 ELSE IF use_alternate.val THEN Ok(entry.alternate, use_alternate.s)
                 ELSE Ok(entry.primary, use_alternate.s)

\* u64 as i64
AsSigned(x) ==
    LET y == x % Pow2(WordBits)
    IN  IF y >= Pow2(WordBits - 1) THEN y - Pow2(WordBits) ELSE y

\* integer_from_bitlengths reading the sign bit before the magnitude
integer_from_bitlengths_sign_first(s, bitlengths) ==
    LET b == sample(bitlengths, s)
    IN  IF b.kind # "ok" THEN b
        ELSE LET sign == bits(b.s, 1)
             IN  IF ~sign.ok THEN FailedDraw(sign.s)
                 ELSE LET m == bits(sign.s, b.val + 1)
                      IN  IF ~m.ok THEN FailedDraw(m.s)
                          ELSE IF sign.val > 0 THEN Ok(-AsSigned(m.val), m.s)
                          ELSE Ok(AsSigned(m.val), m.s)

integer_from_bitlengths(s, bitlengths) ==
    LET b == sample(bitlengths, s)
    IN  IF b.kind # "ok" THEN b
        ELSE LET bitlength == b.val + 1
                 m == bits(b.s, bitlength)
             IN  IF ~m.ok THEN FailedDraw(m.s)
                 ELSE LET base == AsSigned(m.val)
                          sign == bits(m.s, 1)
                      IN  IF ~sign.ok THEN FailedDraw(sign.s)
                          ELSE IF sign.val > 0
                          THEN (IF base = -Pow2(WordBits - 1)
                                THEN (IF overflow_checks THEN Panic(sign.s)
                                      ELSE Ok(base, sign.s))
                                ELSE Ok(-base, sign.s))
                          ELSE Ok(base, sign.s)

------------------------------------------------------------------------------
(* The inputs the callers draw from *)

\* probabilities given to weighted: k/1, k/3 and k/2^(WordBits+1)
Probabilities ==
    UNION {{<<k, d>> : k \in 0..d} : d \in {1, 3, Pow2(WordBits + 1)}}

\* expected_count values whose p_continue is exactly representable
ExpectedCounts == {0, 1, 3, Infinity}

RECURSIVE WeightVectors(_)
WeightVectors(n) ==
    IF n = 0 THEN {<<>>}
    ELSE {Append(ws, w) : ws \in WeightVectors(n - 1), w \in 0..MaxWeight}

AllWeights == UNION {WeightVectors(n) : n \in 1..MaxWeights}

------------------------------------------------------------------------------
(* States and actions *)

InitSource ==
    /\ data \in BitSeqs(DataBits)
    /\ cursor = 0
    /\ overflow_checks \in BOOLEAN
    /\ op = "new"
    /\ arg = 0
    /\ result = [kind |-> "ok", val |-> 0]
    /\ log = <<>>
    /\ pre = [cursor |-> 0, count |-> 0, trues |-> 0, stopped |-> FALSE]
    /\ trues = 0
    /\ stopped = FALSE

\* what every operation leaves behind: its result, its reads, the cursor
Return(name, a, r) ==
    /\ op' = name
    /\ arg' = a
    /\ result' = [kind |-> r.kind, val |-> r.val]
    /\ cursor' = r.s.cur
    /\ log' = r.s.log
    /\ pre' = [cursor |-> cursor, count |-> repeat.current_count,
               trues |-> trues, stopped |-> stopped]
    /\ UNCHANGED <<data, overflow_checks, weights, exact, sampler, driver>>

\* no Sampler has been constructed yet
Unbuilt == [ok |-> FALSE, table |-> <<>>]

\* a panic aborts the program
Running == result.kind # "panic"

InitCoin ==
    /\ InitSource
    /\ driver = "coin"
    /\ repeat = Repeat_new(0, 0, 0)
    /\ weights = <<1>>
    /\ exact = TRUE
    /\ sampler = Unbuilt

Weighted ==
    /\ driver = "coin"
    /\ Running
    /\ \E p \in Probabilities : Return("weighted", p, weighted(Source0, p))
    /\ UNCHANGED <<repeat, trues, stopped>>

BoundedInt ==
    /\ driver = "coin"
    /\ Running
    /\ \E max \in 0..MaxWord : Return("bounded_int", max, bounded_int(Source0, max))
    /\ UNCHANGED <<repeat, trues, stopped>>

InitRepeat ==
    /\ InitSource
    /\ driver = "repeat"
    /\ \E mn \in 0..MaxCount, mx \in 0..MaxCount, e \in ExpectedCounts :
           repeat = Repeat_new(mn, mx, e)
    /\ weights = <<1>>
    /\ exact = TRUE
    /\ sampler = Unbuilt

ShouldContinue ==
    /\ driver = "repeat"
    /\ Running
    /\ LET r == should_continue(repeat, Source0)
       IN  /\ Return("should_continue", 0, r)
           /\ repeat' = r.self
           /\ trues' = IF r.kind = "ok" /\ r.val THEN trues + 1 ELSE trues
           /\ stopped' = (stopped \/ (r.kind = "ok" /\ ~r.val))

InitSampler ==
    /\ InitSource
    /\ driver = "sampler"
    /\ repeat = Repeat_new(0, 0, 0)
    /\ weights \in AllWeights
    /\ exact \in BOOLEAN
    /\ sampler = Unbuilt

\* let sampler = Sampler::new(weights): a failed assertion panics
SamplerNew ==
    /\ driver \in {"sampler", "table"}
    /\ op = "new"
    /\ Running
    /\ sampler' = Sampler_new(weights, exact)
    /\ op' = "Sampler::new"
    /\ result' = [kind |-> IF sampler'.ok THEN "ok" ELSE "panic", val |-> 0]
    /\ UNCHANGED <<data, cursor, overflow_checks, arg, log, pre, repeat, trues,
                   stopped, weights, exact, driver>>

Sample ==
    /\ driver = "sampler"
    /\ Running
    /\ sampler.ok
    /\ Return("sample", 0, sample(sampler, Source0))
    /\ UNCHANGED <<repeat, trues, stopped>>

IntegerFromBitlengths ==
    /\ driver = "sampler"
    /\ Running
    /\ sampler.ok
    /\ Return("integer_from_bitlengths", 0, integer_from_bitlengths(Source0, sampler))
    /\ UNCHANGED <<repeat, trues, stopped>>

\* the construction alone, on a source that holds nothing
InitTable ==
    /\ data = <<>>
    /\ cursor = 0
    /\ overflow_checks \in BOOLEAN
    /\ op = "new"
    /\ arg = 0
    /\ result = [kind |-> "ok", val |-> 0]
    /\ log = <<>>
    /\ pre = [cursor |-> 0, count |-> 0, trues |-> 0, stopped |-> FALSE]
    /\ trues = 0
    /\ stopped = FALSE
    /\ driver = "table"
    /\ repeat = Repeat_new(0, 0, 0)
    /\ weights \in AllWeights
    /\ exact \in BOOLEAN
    /\ sampler = Unbuilt

NextCoin == Weighted \/ BoundedInt
NextRepeat == ShouldContinue
NextSampler == SamplerNew \/ Sample \/ IntegerFromBitlengths

SpecCoin == InitCoin /\ [][NextCoin]_vars
SpecRepeat == InitRepeat /\ [][NextRepeat]_vars
SpecSampler == InitSampler /\ [][NextSampler]_vars
SpecTable == InitTable /\ [][SamplerNew]_vars

Init == InitCoin \/ InitRepeat \/ InitSampler
Next ==
    \/ Weighted
    \/ BoundedInt
    \/ ShouldContinue
    \/ SamplerNew
    \/ Sample
    \/ IntegerFromBitlengths
Spec == Init /\ [][Next]_vars

------------------------------------------------------------------------------
(* Claims *)

IsZero(p) == p[1] = 0
IsOne(p) == p[1] = p[2]

\* the last operation was a successful call of name
Returned(name) == op = name /\ result.kind = "ok"

\* C1: a Repeat with min_count = max_count = k answers successive successful
\* should_continue calls with true exactly k times and then false: a successful
\* call returns true if and only if fewer than k calls have returned true.
C1_TrueExactlyKTimes ==
    (Returned("should_continue") /\ repeat.min_count = repeat.max_count /\ ~pre.stopped)
        => (result.val <=> pre.trues < repeat.max_count)

\* C2: with min_count <= max_count, until the first false, should_continue never
\* returns false after fewer than min_count true results and never returns true
\* after max_count true results.
C2_CountWithinBounds ==
    (Returned("should_continue") /\ repeat.min_count <= repeat.max_count /\ ~pre.stopped)
        => /\ ~result.val => pre.trues >= repeat.min_count
           /\ result.val => pre.trues < repeat.max_count

\* C3: weighted with probability 0.0 returns false and with probability 1.0
\* returns true, for every value read from the source.
C3_CertainCoins ==
    (op = "weighted" /\ result.kind # "fail")
        => /\ IsZero(arg) => (result.kind = "ok" /\ result.val = FALSE)
           /\ IsOne(arg) => (result.kind = "ok" /\ result.val = TRUE)

\* C4: a successful bounded_int(source, max) returns a value in [0, max]; for
\* max = 0 it returns 0, reads nothing and leaves the cursor where it was.
C4_BoundedIntRange ==
    op = "bounded_int"
        => /\ result.kind = "ok" => result.val \in 0..arg
           /\ arg = 0 => /\ result.kind = "ok"
                         /\ result.val = 0
                         /\ log = <<>>
                         /\ cursor = pre.cursor

\* C4 witness: a probe above max was rejected and a later probe returned
C4_Witness ==
    /\ Returned("bounded_int")
    /\ Len(log) >= 2
    /\ log[1].val > arg
    /\ result.val <= arg

\* C5: sampling a table built from a single positive weight returns index 0 and
\* reads nothing from the source (the one-entry bounded_int reads nothing, and
\* no coin is read for the alternate branch).
C5_SingleWeightNoRead ==
    (Returned("sample") /\ Len(weights) = 1 /\ weights[1] > 0)
        => /\ result.val = 0
           /\ log = <<>>
           /\ cursor = pre.cursor

\* C5 as amended: sampling a table built from a single positive weight returns
\* index 0; the bounded_int draw reads nothing and the call consumes exactly one
\* word-wide read, the use_alternate coin.
C5_SingleWeightOneCoin ==
    (Returned("sample") /\ Len(weights) = 1 /\ weights[1] > 0)
        => /\ result.val = 0
           /\ Len(log) = 1
           /\ log[1].n = WordBits
           /\ cursor = pre.cursor + WordBits

\* C5 witness: a second sample of a one-entry table, its coin read not 0
C5_Witness ==
    /\ Returned("sample")
    /\ Len(weights) = 1
    /\ pre.cursor > 0
    /\ log[1].val > 0

\* the mass a table gives index i, in units of 1 / d: (1 - use_alternate) of
\* every entry whose primary is i plus use_alternate of every entry whose
\* alternate is i
RECURSIVE Mass(_, _, _)
Mass(table, i, d) ==
    IF table = <<>> THEN 0
    ELSE LET e == table[Len(table)]
             ua == e.use_alternate
         IN  Mass(SubSeq(table, 1, Len(table) - 1), i, d)
               + (IF e.primary = i THEN ((ua[2] - ua[1]) * d) \div ua[2] ELSE 0)
               + (IF e.alternate = i THEN (ua[1] * d) \div ua[2] ELSE 0)

\* the entries of a table as Sampler::new pushed them, normalised, not yet sorted
Unsorted(ws, ex) == [k \in 1..Len(Pushed(ws, ex)) |-> Normalise(Pushed(ws, ex)[k])]

Built == sampler.ok

\* C6: in exact arithmetic the table gives every index i the mass
\* n * weights[i] / total (every use_alternate being a multiple of 1 / total).
C6_MassIsScaledWeight ==
    (Built /\ exact)
        => /\ \A k \in 1..Len(sampler.table) :
                  Sum(weights) % sampler.table[k].use_alternate[2] = 0
           /\ \A i \in 0..(Len(weights) - 1) :
                  Mass(sampler.table, i, Sum(weights)) = Len(weights) * weights[i + 1]

\* C6 witness: an exact table of three weights holding a pair with a proper
\* fraction that the normalisation swapped
C6_Witness ==
    /\ Built /\ exact
    /\ Len(weights) = 3
    /\ \E k \in 1..Len(sampler.table) :
           /\ Pushed(weights, exact)[k].alternate < Pushed(weights, exact)[k].primary
           /\ Pushed(weights, exact)[k].use_alternate[1] \in
                  1..(Pushed(weights, exact)[k].use_alternate[2] - 1)

\* C7: every entry of a built table has primary <= alternate, and an entry with
\* primary = alternate has use_alternate = 0.0.
C7_EntriesNormalised ==
    Built => \A k \in 1..Len(sampler.table) :
                 /\ sampler.table[k].primary <= sampler.table[k].alternate
                 /\ sampler.table[k].primary = sampler.table[k].alternate
                        => sampler.table[k].use_alternate[1] = 0

\* C7 witness: a table holding a certain entry and a pair pushed with
\* alternate < primary
C7_Witness ==
    /\ Built
    /\ \E k \in 1..Len(sampler.table) :
           sampler.table[k].primary = sampler.table[k].alternate
    /\ \E k \in 1..Len(sampler.table) :
           Pushed(weights, exact)[k].alternate < Pushed(weights, exact)[k].primary

\* C8: a built table has one entry per weight, every index having been pushed
\* exactly once as the primary of an entry (a certain entry or the lo of a
\* pair), and is sorted ascending by (primary, alternate).
C8_OneEntryPerWeightSorted ==
    Built => /\ Len(sampler.table) = Len(weights)
             /\ \A i \in 0..(Len(weights) - 1) :
                    Cardinality({k \in 1..Len(Pushed(weights, exact)) :
                                     Pushed(weights, exact)[k].primary = i}) = 1
             /\ \A k \in 1..(Len(sampler.table) - 1) :
                    cmp(sampler.table[k], sampler.table[k + 1]) # "Greater"

\* C8 witness: a table of three entries, one of them left over in a heap when
\* the pairing loop ended, that the sort reordered
C8_Witness ==
    /\ Built
    /\ Len(sampler.table) = 3
    /\ Paired(weights, exact).small \cup Paired(weights, exact).large # {}
    /\ sampler.table # Unsorted(weights, exact)

\* the index the sampler yields from where the last operation started
SampledIndex == sample(sampler, [cur |-> pre.cursor, log |-> <<>>])

\* the last operation read what the sampler reads, then b + 1 bits of magnitude
\* m, then 1 sign bit, and returned -m for sign 1 and m for sign 0
ReadMagnitudeThenSign ==
    LET b == SampledIndex
        n == Len(log)
    IN  /\ n = Len(b.s.log) + 2
        /\ SubSeq(log, 1, n - 2) = b.s.log
        /\ log[n - 1].n = b.val + 1
        /\ log[n].n = 1
        /\ result.val = IF log[n].val = 1 THEN -log[n - 1].val ELSE log[n - 1].val
        /\ log[n - 1].val < Pow2(b.val + 1)

Operations == {"weighted", "bounded_int", "should_continue", "sample",
               "integer_from_bitlengths"}

\* C10: an operation issues no read after a failed read, returns Draw Failure
\* exactly when its last read failed, and a failing should_continue leaves
\* current_count as it was before the call.
C10_FailureIsTerminal ==
    op \in Operations
        => /\ \A k \in 1..(Len(log) - 1) : log[k].ok
           /\ result.kind = "fail" <=> (log # <<>> /\ ~log[Len(log)].ok)
           /\ (op = "should_continue" /\ result.kind = "fail")
                  => repeat.current_count = pre.count

\* C10 witness: a should_continue call that had counted at least once fails
\* in its forcing loop after a draw that succeeded
C10_Witness ==
    /\ op = "should_continue"
    /\ result.kind = "fail"
    /\ pre.count > 0
    /\ Len(log) >= 2


\* C12: current_count is 0 after construction, is never decreased by a
\* should_continue call, successful or failing, and never exceeds max_count.
C12_CountMonotoneBounded ==
    driver = "repeat"
        => /\ op = "new" => repeat.current_count = 0
           /\ repeat.current_count >= pre.count
           /\ repeat.current_count <= repeat.max_count

\* C12 witness: a controller that has counted up to max_count > 0 and is
\* called again
C12_Witness ==
    /\ op = "should_continue"
    /\ repeat.max_count > 0
    /\ pre.count = repeat.max_count
    /\ repeat.current_count = repeat.max_count

\* C13: current_count equals the number of should_continue calls that have
\* returned true.
C13_CountIsNumberOfTrues ==
    driver = "repeat" => repeat.current_count = trues

\* the weighted draw with p_continue that the k-th read of the last call made
DrawAt(k) ==
    weighted([cur |-> pre.cursor + (k - 1) * WordBits, log |-> <<>>], repeat.p_continue)

\* C14: a should_continue call in the normal state (min_count <= current_count
\* < max_count) makes exactly one weighted draw with p_continue, one word-wide
\* read, and returns what that draw returns.
C14_NormalStateOneDraw ==
    (op = "should_continue" /\ repeat.min_count <= pre.count
                            /\ pre.count < repeat.max_count)
        => /\ Len(log) = 1
           /\ log[1].n = WordBits
           /\ log = DrawAt(1).s.log
           /\ result.kind = DrawAt(1).kind
           /\ result.kind = "ok" => result.val = DrawAt(1).val

\* C14 witness: a normal-state call of a controller that had counted once
\* returns false, its draw having read a probe that is not 0
C14_Witness ==
    /\ Returned("should_continue")
    /\ repeat.min_count <= pre.count
    /\ pre.count < repeat.max_count
    /\ pre.count > 0
    /\ log[1].val > 0
    /\ result.val = FALSE

\* C15: a successful should_continue call reads at least one word.  Below
\* min_count it returns true, its last draw being the first that is true; at or
\* above max_count it returns false without counting, its last draw being the
\* first that is false.
C15_ForcedOutcomeIsDrawn ==
    Returned("should_continue")
        => /\ Len(log) >= 1
           /\ \A k \in 1..Len(log) : log[k].n = WordBits /\ log[k].ok
           /\ pre.count < repeat.min_count
                  => /\ result.val = TRUE
                     /\ DrawAt(Len(log)).val = TRUE
                     /\ \A k \in 1..(Len(log) - 1) : DrawAt(k).val = FALSE
           /\ (pre.count >= repeat.min_count /\ pre.count >= repeat.max_count)
                  => /\ result.val = FALSE
                     /\ DrawAt(Len(log)).val = FALSE
                     /\ \A k \in 1..(Len(log) - 1) : DrawAt(k).val = TRUE
                     /\ repeat.current_count = pre.count

\* C15 witness: a call below min_count discards a false draw and returns on
\* the true draw that follows
C15_Witness ==
    /\ Returned("should_continue")
    /\ pre.count < repeat.min_count
    /\ Len(log) >= 2
    /\ result.val = TRUE

\* C15 witness of the other side: a call at max_count discards a true draw and
\* returns false on the false draw that follows
C15_WitnessAtMax ==
    /\ Returned("should_continue")
    /\ pre.count >= repeat.min_count
    /\ pre.count >= repeat.max_count
    /\ Len(log) >= 2
    /\ result.val = FALSE

\* C16: weighted returns true if and only if the value read is among the top
\* T values of the word range (x >= 2^64 - T), T = floor(p * 2^64) saturated,
\* so exactly T read values give true; no overflow changes the outcome.
C16_TopTValuesAreTrue ==
    (op = "weighted" /\ result.kind # "fail")
        => /\ result.kind = "ok"
           /\ result.val <=> (log[1].val >= Pow2(WordBits) - Truthy(arg))

\* the number of bits the binary form of max > 0 has
BitLength(max) ==
    CHOOSE b \in 1..WordBits : Pow2(b - 1) <= max /\ max < Pow2(b)

\* C17: for max > 0, bounded_int issues only reads of 64 - leading_zeros(max)
\* bits; a successful call returns the first probe that is <= max, every probe
\* before it is > max, and the cursor has advanced by bitlength for each probe.
C17_FirstProbeWithinMax ==
    (op = "bounded_int" /\ arg > 0)
        => /\ \A k \in 1..Len(log) : log[k].n = BitLength(arg)
           /\ result.kind = "ok"
                  => /\ Len(log) >= 1
                     /\ \A k \in 1..(Len(log) - 1) : log[k].ok /\ log[k].val > arg
                     /\ log[Len(log)].ok
                     /\ log[Len(log)].val <= arg
                     /\ result.val = log[Len(log)].val
                     /\ cursor = pre.cursor + BitLength(arg) * Len(log)

\* C17 witness: two probes were rejected before the one returned, and the
\* cursor has passed all three
C17_Witness ==
    /\ Returned("bounded_int")
    /\ arg > 0
    /\ Len(log) = 3
    /\ log[1].val > arg
    /\ log[2].val > arg
    /\ cursor = pre.cursor + 3 * log[1].n

\* C17 witness of a bit length below the word's: max = 1 is drawn from one bit
C17_WitnessNarrow ==
    /\ Returned("bounded_int")
    /\ arg = 1
    /\ log[1].n = 1
    /\ log[1].n < WordBits

\* the widths of all reads of the last operation are between 1 and WordBits
ReadWidthsValid == \A k \in 1..Len(log) : log[k].n \in 1..WordBits

\* C18: every read any operation issues requests between 1 and 64 bits, for
\* every max, every probability and every Sampler of any number of weights.
C18_AllReadWidthsValid == ReadWidthsValid

\* C18 as amended: every read requests between 1 and 64 bits, for
\* integer_from_bitlengths when its Sampler has at most 64 weights.
C18_ReadWidthsValidUpToWordWeights ==
    (op = "integer_from_bitlengths" => Len(sampler.table) <= WordBits)
        => ReadWidthsValid

\* C18 witness: integer_from_bitlengths on a table of as many weights as the
\* word has bits sampled the last index and read a magnitude a word wide
C18_Witness ==
    /\ Returned("integer_from_bitlengths")
    /\ Len(sampler.table) = WordBits
    /\ SampledIndex.val + 1 = WordBits
    /\ Len(log) >= 2
    /\ log[Len(log) - 1].n = WordBits
    /\ log[Len(log)].n = 1

\* C19: every call terminates with a value or a Draw Failure.
C19_ValueOrDrawFailure ==
    op \in Operations => result.kind \in {"ok", "fail"}

\* every read that succeeded took at least one bit, so a call issues at most
\* one read more than the bits that were left when it began
EveryReadConsumes ==
    op \in Operations
        => /\ \A k \in 1..Len(log) : log[k].ok => log[k].n >= 1
           /\ Len(log) <= (Len(data) - pre.cursor) + 1
           /\ cursor >= pre.cursor + (Len(log) - 1)

\* C20: a successful sample returns an index in [0, n) whose weight is not 0.
C20_NoZeroWeightIndex ==
    Returned("sample")
        => /\ result.val \in 0..(Len(weights) - 1)
           /\ weights[result.val + 1] > 0

====
